---- MODULE Spec2Model ----
(***************************************************************************)
(* Model of the configuration benchmark (src/src/Benchmark.cxx): option    *)
(* handling, the put path, the forking get path, and the comparison of     *)
(* generated against returned parameters.                                  *)
(*                                                                         *)
(* Strings are sequences of tokens.  A token is a piece of text that the   *)
(* program only ever handles as a whole ("/test/separate/key", "/dirA",    *)
(* a decimal digit, ...).                                                  *)
(***************************************************************************)
EXTENDS Integers, Sequences, FiniteSets, TLC

\* ------------------------------------------------------------------ bounds
MaxParams == 2      \* largest --n-parameters given on the command line
MaxProc == 2        \* largest --n-processes given on the command line
MaxLoad == 4        \* largest --n-processes times --n-parameters
RecKeys == 2        \* size of the key universe of the reconciliation runs
MaxGen == 16        \* largest parameter number of the generation runs
SyncMinutes == 3    \* minutes of wall-clock time the waiting runs span

\* ------------------------------------------------------- program constants
ValueWidth == 95    \* std::setw(95) in makeValue
DirCapacity == 5    \* keys per directory of the tree structure

\* ----------------------------------------------------------------- strings
Range(s) == {s[j] : j \in 1..Len(s)}

DigitChar(d) == <<"0", "1", "2", "3", "4", "5", "6", "7", "8", "9">>[d + 1]

\* boost::lexical_cast<std::string>(int), for i >= 0
RECURSIVE lexical_cast(_)
lexical_cast(i) ==
  IF i < 10 THEN <<DigitChar(i)>>
  ELSE lexical_cast(i \div 10) \o <<DigitChar(i % 10)>>

\* std::setw(w) << std::setfill('0') applied to the text s
ZeroFill(s, w) ==
  IF Len(s) >= w THEN s ELSE [j \in 1..(w - Len(s)) |-> "0"] \o s

makeValue(number) == <<"value">> \o ZeroFill(lexical_cast(number), ValueWidth)

flatParameterPath(nParameters) == <<"/test/flat">> \o lexical_cast(nParameters)

treeParameterPath(nParameters) == <<"/test/tree">> \o lexical_cast(nParameters)

\* Position of a token in the character order of std::string's operator<.
\* Tokens that can stand at the same place of two keys of one map are
\* digits, "/dirA", "/dirB" and "/key"; '/' (47) sorts before '0' (48).
TokenRank(t) ==
  CASE t = "/dirA" -> 0
    [] t = "/dirB" -> 1
    [] t = "/key" -> 2
    [] t = "/" -> 3
    [] t = "0" -> 10 [] t = "1" -> 11 [] t = "2" -> 12 [] t = "3" -> 13
    [] t = "4" -> 14 [] t = "5" -> 15 [] t = "6" -> 16 [] t = "7" -> 17
    [] t = "8" -> 18 [] t = "9" -> 19
    [] OTHER -> 20

\* std::less<std::string>: lexicographic order
RECURSIVE StringLess(_, _)
StringLess(a, b) ==
  IF b = <<>> THEN FALSE
  ELSE IF a = <<>> THEN TRUE
  ELSE IF Head(a) = Head(b) THEN StringLess(Tail(a), Tail(b))
  ELSE TokenRank(Head(a)) < TokenRank(Head(b))

\* -------------------------------------------------------------- ParameterMap
\* std::map<std::string, std::string>: a function from keys to values,
\* iterated in ascending key order.
EmptyMap == [k \in {} |-> <<>>]

\* the map holding the (key, value) pairs of S, as built by emplace()
MapOf(S) == [k \in {e[1] : e \in S} |-> (CHOOSE e \in S : e[1] = k)[2]]

\* the keys of a map in iteration order
RECURSIVE KeyOrder(_)
KeyOrder(K) ==
  IF K = {} THEN <<>>
  ELSE LET first == CHOOSE k \in K : \A o \in K \ {k} : StringLess(k, o)
       IN <<first>> \o KeyOrder(K \ {first})

\* ---------------------------------------------------------------- generation
createParameterMapSeparate_inclusive(nParams) ==
  MapOf({<<(<<"/test/separate/key">> \o lexical_cast(i)), makeValue(i)>> :
         i \in 0..nParams})

createParameterMapSeparate(nParams) ==
  MapOf({<<(<<"/test/separate/key">> \o lexical_cast(i)), makeValue(i)>> :
         i \in 0..(nParams - 1)})

RECURSIVE CombinedValue(_, _)
CombinedValue(i, nParams) ==
  IF i >= nParams THEN <<>>
  ELSE <<"key">> \o lexical_cast(i) \o <<"=value">>
         \o ZeroFill(lexical_cast(i), ValueWidth) \o <<"|">>
         \o CombinedValue(i + 1, nParams)

createParameterMapCombined(nParams) ==
  MapOf({<<(<<"/test/combined/key">> \o lexical_cast(nParams)),
           CombinedValue(0, nParams)>>})

createParameterMapFlat(nParameters) ==
  MapOf({<<(flatParameterPath(nParameters) \o <<"/">> \o <<"key">>
             \o lexical_cast(i)), makeValue(i)>> :
         i \in 0..(nParameters - 1)})

RECURSIVE Pow2(_)
Pow2(e) == IF e = 0 THEN 1 ELSE 2 * Pow2(e - 1)

\* the findDepth lambda of createParameterMapTree
RECURSIVE findDepthLoop(_, _, _, _)
findDepthLoop(nParameters, paramsPerLevel, depth, maxElements) ==
  LET m == maxElements + Pow2(depth) * paramsPerLevel
  IN IF nParameters <= m THEN depth
     ELSE findDepthLoop(nParameters, paramsPerLevel, depth + 1, m)

findDepth_strict(nParameters, paramsPerLevel) ==
  findDepthLoop(nParameters + 1, paramsPerLevel, 0, 0)

findDepth(nParameters, paramsPerLevel) ==
  findDepthLoop(nParameters, paramsPerLevel, 0, 0)

\* _createParameterMapTreeRecursive: returns the pairs emplaced by the call
\* and the value of currentParameters (passed by reference) after it.
RECURSIVE TreeRecursive(_, _, _, _, _)
TreeRecursive(nParameters, currentParameters, neededDepth, currentDepth, currentDirKey) ==
  IF currentDepth > neededDepth \/ currentParameters >= nParameters
  THEN [pairs |-> {}, cur |-> currentParameters]
  ELSE
    LET added == IF nParameters - currentParameters < DirCapacity
                 THEN nParameters - currentParameters ELSE DirCapacity
        own == {<<(currentDirKey \o <<"/key">> \o lexical_cast(i)),
                  makeValue(i)>> :
                i \in currentParameters..(currentParameters + added - 1)}
        a == TreeRecursive(nParameters, currentParameters + added,
                           neededDepth, currentDepth + 1,
                           currentDirKey \o <<"/dirA">>)
        b == TreeRecursive(nParameters, a.cur, neededDepth, currentDepth + 1,
                           currentDirKey \o <<"/dirB">>)
    IN [pairs |-> own \cup a.pairs \cup b.pairs, cur |-> b.cur]

createParameterMapTree(nParameters) ==
  MapOf(TreeRecursive(nParameters, 0, findDepth(nParameters, DirCapacity), 0,
                      treeParameterPath(nParameters)).pairs)

Structures == {"separate", "combined", "flat", "tree"}

\* ParameterHandler::createParameterMap of the handler chosen for structure s
createParameterMap(s, n) ==
  CASE s = "separate" -> createParameterMapSeparate(n)
    [] s = "combined" -> createParameterMapCombined(n)
    [] s = "flat" -> createParameterMapFlat(n)
    [] s = "tree" -> createParameterMapTree(n)

\* the generated maps of every structure and size met in a run
GenTable ==
  [s \in Structures |-> [n \in 0..MaxParams |-> createParameterMap(s, n)]]

\* ------------------------------------------------------------ command line
\* boost::split(result, input, is_any_of(","), token_compress_on): the text
\* between runs of commas; a leading or trailing run leaves an empty token.
RECURSIVE SplitFrom(_, _, _)
SplitFrom(input, j, token) ==
  IF j > Len(input) THEN <<token>>
  ELSE IF input[j] # "," THEN SplitFrom(input, j + 1, Append(token, input[j]))
  ELSE IF j > 1 /\ input[j - 1] = "," THEN SplitFrom(input, j + 1, token)
  ELSE <<token>> \o SplitFrom(input, j + 1, <<>>)

split(input) == SplitFrom(input, 1, <<>>)

\* the texts given to --server-uri (<<>>: option not given)
ServerUriTexts ==
  { <<>>, <<"a">>, <<"a", ",", ",", "b", ",", "c">> }

\* what the command line (and the arguments URI, when given) can say
ArgvRecords ==
  [ help : BOOLEAN, verbose : BOOLEAN,
    argsUri : {"", "no-arguments", "arguments"},
    serverUris : ServerUriTexts,
    monitoringConfigUri : {"", "mon"},
    processNumber : 1..MaxProc,
    parameterNumber : 0..MaxParams,
    parameterStructure : Structures \cup {"other"},
    skipWait : BOOLEAN, skipCheckValues : BOOLEAN,
    put : BOOLEAN, printParams : BOOLEAN ]

ArgvSpace ==
  {a \in ArgvRecords : a.processNumber * a.parameterNumber <= MaxLoad}

\* struct Options before getOptions() has returned
NoOptions ==
  [ serverUris |-> <<>>, monitoringConfigUri |-> "",
    parameterStructure |-> "", parameterNumber |-> 0, processNumber |-> 0,
    skipWait |-> FALSE, skipCheckValues |-> FALSE, put |-> FALSE,
    printParams |-> FALSE, help |-> FALSE, verbose |-> FALSE ]

\* the process id of the process started by the user
StartPids == {7}

\* ------------------------------------------------------------------- state
VARIABLES
  options,   \* the Options of the run (shared, read-only after getOptions)
  procs,     \* the processes of the run: procs[1] is the one started by the
             \* user, the others were forked; each is a record (see NewProc)
  writes,    \* the putString calls issued to the backends, in order
  checkGenerated,  \* arguments and result (-1: not called yet) of a call of
  checkReturned,   \* checkReturnedParameters() on maps that need not come
  checkResult,     \* from a run
  genStructure,    \* arguments of a call of createParameterMap() on its own,
  genNumber,       \* ...
  genDone,         \* whether the call was made,
  genMap,          \* its result,
  genDepth,        \* and the neededDepth computed on the way (tree only)
  syncCount,       \* processes of a get run that wait for the sync point,
  clock,           \* the system clock they share (seconds, as time_t),
  sync             \* and where each of them is in waitUntilNextInterval()

checkVars == <<checkGenerated, checkReturned, checkResult>>

genVars == <<genStructure, genNumber, genDone, genMap, genDepth>>

\* the variables of the calls made outside a run
syncVars == <<syncCount, clock, sync>>

aloneVars == <<checkVars, genVars, syncVars>>

vars == <<options, procs, writes, aloneVars>>

\* no call of createParameterMap() on its own
GenIdle ==
  /\ genStructure = "" /\ genNumber = 0 /\ genDone = FALSE
  /\ genMap = EmptyMap /\ genDepth = 0

\* no process waiting for the sync point
SyncIdle == syncCount = 0 /\ clock = 0 /\ sync = <<>>

\* The process started by the user.
\*   pc           where the process stands in main()/doPut()/doGet()
\*   sVerbose     the global of that name
\*   pid          ::getpid()
\*   child        the process was created by fork()
\*   i            loop variable of the fork loop
\*   spawned      number of successful fork() calls made by the process
\*   out, err     what the process wrote to std::cout and std::cerr
\*   exit         return value of main(), -1 while running
\*   uri          result of selectUri(), <<>> before the call
\*   fetched      keys passed to getString()/getRecursive(), in order
\*   rounds       calls of ParameterHandler::get
\*   generatedMap, returnedMap   members of the ParameterHandler
\*   samples      samples accepted by the metrics sink, in order
\*   trace        steps of the orchestration entered so far
\*   putEp, putKey   endpoint and key position of the put loops
NewProc(pid) ==
  [ pc |-> "main", sVerbose |-> TRUE, pid |-> pid, child |-> FALSE, i |-> 0,
    spawned |-> 0, out |-> <<>>, err |-> <<>>, exit |-> -1, uri |-> <<>>,
    fetched |-> <<>>, rounds |-> 0, generatedMap |-> EmptyMap,
    returnedMap |-> EmptyMap, samples |-> <<>>, trace |-> <<>>,
    putEp |-> 0, putKey |-> 0 ]

Init ==
  /\ options = NoOptions
  /\ \E pid \in StartPids : procs = <<NewProc(pid)>>
  /\ writes = <<>>
  /\ checkGenerated = EmptyMap
  /\ checkReturned = EmptyMap
  /\ checkResult = -1
  /\ GenIdle
  /\ SyncIdle

\* log() << text: reaches std::cout only while sVerbose is set
Log(pr, text) == IF pr.sVerbose THEN Append(pr.out, text) ELSE pr.out

\* an exception reaches the catch of main(): message to std::cerr, return 1
Fatal(pr, what) ==
  [pr EXCEPT !.pc = "exited", !.exit = 1,
             !.err = Append(@, <<"FATAL: ">> \o what)]

\* main() runs off its end
ReturnZero(pr) == [pr EXCEPT !.pc = "exited", !.exit = 0]

\* ------------------------------------------------------------------ main()
\* po::parse_command_line rejects the command line
ParseError(p) ==
  /\ procs[p].pc = "main"
  /\ procs' = [procs EXCEPT ![p] = Fatal(@, <<"unrecognised option">>)]
  /\ UNCHANGED <<options, writes, aloneVars>>

\* getOptions() and the lines of main() up to the help test
GetOptions(p) ==
  /\ procs[p].pc = "main"
  /\ \E a \in ArgvSpace :
       LET pr == procs[p]
           helped == IF a.help
                     THEN [pr EXCEPT !.out = Append(@, <<"optionsDescription">>)]
                     ELSE pr
           parsed ==
             [ serverUris |-> split(a.serverUris),
               monitoringConfigUri |-> a.monitoringConfigUri,
               parameterStructure |-> a.parameterStructure,
               parameterNumber |-> a.parameterNumber,
               processNumber |-> a.processNumber,
               skipWait |-> a.skipWait,
               skipCheckValues |-> a.skipCheckValues,
               put |-> a.put, printParams |-> a.printParams,
               help |-> a.help, verbose |-> a.verbose ]
       IN IF a.argsUri = "no-arguments"
          THEN /\ procs' = [procs EXCEPT ![p] =
                     Fatal(helped, <<"Arguments URI contained no arguments">>)]
               /\ UNCHANGED <<options, aloneVars>>
          ELSE IF a.serverUris = <<>>
          THEN /\ procs' = [procs EXCEPT ![p] =
                     Fatal(helped, <<"Must specify server URI">>)]
               /\ UNCHANGED <<options, aloneVars>>
          ELSE /\ options' = parsed
               /\ procs' = [procs EXCEPT ![p] =
                     IF parsed.help
                     THEN ReturnZero([helped EXCEPT !.sVerbose = parsed.verbose])
                     ELSE [helped EXCEPT !.sVerbose = parsed.verbose,
                                         !.pc = "dispatch"]]
  /\ UNCHANGED <<writes, aloneVars>>

\* printMapCsv: one line per entry, in key order (a line is recorded by its
\* key; the value that follows the comma is left out of the record)
RECURSIVE CsvLines(_, _)
CsvLines(map, keys) ==
  IF keys = <<>> THEN <<>>
  ELSE <<Head(keys) \o <<",">>>> \o CsvLines(map, Tail(keys))

RECURSIVE LogAll(_, _)
LogAll(pr, texts) ==
  IF texts = <<>> THEN pr.out
  ELSE LogAll([pr EXCEPT !.out = Log(pr, Head(texts))], Tail(texts))

printMapCsv(pr, map) == LogAll(pr, CsvLines(map, KeyOrder(DOMAIN map)))

\* getParameterHandler() and the three branches of main()
Dispatch(p) ==
  /\ procs[p].pc = "dispatch"
  /\ LET pr == procs[p]
         gen == GenTable[options.parameterStructure][options.parameterNumber]
     IN procs' = [procs EXCEPT ![p] =
          IF options.parameterStructure \notin Structures
          THEN Fatal(pr, <<"invalid 'mode' option">>)
          ELSE IF options.printParams
          THEN ReturnZero([pr EXCEPT !.out =
                 printMapCsv([pr EXCEPT !.out = Log(pr, <<"Printing parameters">>)],
                             gen)])
          ELSE IF options.put THEN [pr EXCEPT !.pc = "doPut"]
          ELSE [pr EXCEPT !.pc = "doGet"]]
  /\ UNCHANGED <<options, writes, aloneVars>>

\* ------------------------------------------------------------------ doPut()
\* PutNext with the entry position left at the end of the map when the
\* next endpoint starts
PutNext_positionKept(ep, key, nKeys) ==
  IF key < nKeys THEN <<ep, key + 1>> ELSE <<ep + 1, nKeys>>

\* the position after (ep, key) in the loops of doPut (endpoints, outer) and
\* putParametersToServer (entries in key order, inner)
PutNext(ep, key, nKeys) ==
  IF key < nKeys THEN <<ep, key + 1>> ELSE <<ep + 1, 1>>

\* doPut() up to the first putString: the header line; a map without
\* entries leaves nothing to write on any endpoint
PutBegin(p) ==
  /\ procs[p].pc = "doPut"
  /\ LET pr == procs[p]
         gen == GenTable[options.parameterStructure][options.parameterNumber]
         head == [pr EXCEPT !.out = Log(pr, <<"Putting parameters to servers">>),
                            !.generatedMap = gen]
     IN procs' = [procs EXCEPT ![p] =
          IF DOMAIN gen = {}
          THEN ReturnZero([head EXCEPT !.out = LogAll(head,
                 [j \in 1..Len(options.serverUris) |-> <<"Putting key-values">>])])
          ELSE [head EXCEPT !.pc = "put", !.putEp = 1, !.putKey = 1]]
  /\ UNCHANGED <<options, writes, aloneVars>>

\* one configuration->putString(key, value); the backend accepts it or fails
PutString(p) ==
  /\ procs[p].pc = "put"
  /\ LET pr == procs[p]
         keys == KeyOrder(DOMAIN pr.generatedMap)
         key == keys[pr.putKey]
         uri == options.serverUris[pr.putEp]
         logged == [pr EXCEPT !.out = LogAll(pr,
                      (IF pr.putKey = 1 THEN << <<"Putting key-values">> >>
                       ELSE <<>>) \o << <<" - ">> \o key >>)]
         next == PutNext(pr.putEp, pr.putKey, Len(keys))
     IN /\ writes' = Append(writes, <<uri, key, pr.generatedMap[key]>>)
        /\ \E accepted \in BOOLEAN :
             procs' = [procs EXCEPT ![p] =
               IF ~accepted THEN Fatal(logged, <<"putString failed">>)
               ELSE IF next[1] > Len(options.serverUris)
               THEN ReturnZero(logged)
               ELSE [logged EXCEPT !.putEp = next[1], !.putKey = next[2]]]
  /\ UNCHANGED <<options, aloneVars>>

\* ------------------------------------------------------------------ doGet()
\* ForkLoopCondition with an inclusive upper limit
ForkLoopCondition_inclusive(i, o) == i <= o.processNumber

\* condition of the fork loop: for (int i = 1; i < options.processNumber; ++i)
ForkLoopCondition(i, o) == i < o.processNumber

\* doGet() up to the fork loop
GetBegin(p) ==
  /\ procs[p].pc = "doGet"
  /\ LET pr == procs[p]
         said == IF options.processNumber > 1
                 THEN [pr EXCEPT !.out = Log(pr, <<"Forking">>)] ELSE pr
     IN procs' = [procs EXCEPT ![p] =
          IF options.monitoringConfigUri = ""
          THEN Fatal(said, <<"Monitoring URI required">>)
          ELSE IF ForkLoopCondition(1, options)
          THEN [said EXCEPT !.pc = "fork", !.i = 1, !.trace = Append(@, "Fork")]
          ELSE [said EXCEPT !.pc = "configure", !.i = 1]]
  /\ UNCHANGED <<options, writes, aloneVars>>

\* the process fork() returns 0 in: a copy of the caller that has written
\* nothing yet, turns silent and leaves the loop
ChildAfterFork(pr, pid) ==
  [pr EXCEPT !.pid = pid, !.child = TRUE, !.spawned = 0, !.out = <<>>,
             !.err = <<>>, !.sVerbose = FALSE, !.pc = "configure"]

\* the caller after a successful fork(): next iteration, or out of the loop
ParentAfterFork(pr) ==
  [pr EXCEPT !.spawned = @ + 1, !.i = @ + 1,
             !.pc = IF ForkLoopCondition(pr.i + 1, options)
                    THEN "fork" ELSE "configure"]

\* the pid of the next process: pids are handed out in increasing order
NextPid ==
  LET used == {procs[q].pid : q \in DOMAIN procs}
  IN (CHOOSE m \in used : \A n \in used : n <= m) + 1

\* one iteration of the fork loop
Fork(p) ==
  /\ procs[p].pc = "fork"
  /\ \/ procs' = [procs EXCEPT ![p] = Fatal(@, <<"Fork error">>)]
     \/ procs' = Append([procs EXCEPT ![p] = ParentAfterFork(@)],
                         ChildAfterFork(procs[p], NextPid))
  /\ UNCHANGED <<options, writes, aloneVars>>

\* AfterConfigure that ignores --skip-wait
AfterConfigure_alwaysWaits(o) == "wait"

\* the pc after configureMonitoring(): the wait unless --skip-wait
AfterConfigure(o) == IF o.skipWait THEN "select" ELSE "wait"

\* configureMonitoring(): MonitoringFactory::Configure succeeds or throws
ConfigureMetrics(p) ==
  /\ procs[p].pc = "configure"
  /\ \E configured \in BOOLEAN :
       procs' = [procs EXCEPT ![p] =
         LET pr == [@ EXCEPT !.trace = Append(@, "ConfigureMetrics")]
         IN IF configured THEN [pr EXCEPT !.pc = AfterConfigure(options)]
            ELSE Fatal(pr, <<"Monitoring configuration failed">>)]
  /\ UNCHANGED <<options, writes, aloneVars>>

\* waitUntilNextInterval() and the log line before it
WaitForSyncPoint(p) ==
  /\ procs[p].pc = "wait"
  /\ LET pr == procs[p]
     IN procs' = [procs EXCEPT ![p] =
          [pr EXCEPT !.out = LogAll(pr, << <<"Waiting until next interval">>,
                                           <<"Current time">>,
                                           <<"Sleeping until">> >>),
                     !.trace = Append(@, "WaitForSyncPoint"),
                     !.pc = "select"]]
  /\ UNCHANGED <<options, writes, aloneVars>>

\* SelectIndex with the modulus one too small
SelectIndex_shortModulus(pid, size) == pid % (size - 1)

\* index into serverUris used by selectUri when several are configured
SelectIndex(pid, size) == pid % size

\* selectUri(options) in a process with the given pid: the URI, or <<>> when
\* the call throws
selectUri(o, pid) ==
  IF Len(o.serverUris) = 0 THEN <<>>
  ELSE IF Len(o.serverUris) = 1 THEN o.serverUris[1]
  ELSE o.serverUris[SelectIndex(pid, Len(o.serverUris)) + 1]

\* the call of selectUri() in doGet() and the log line before it
SelectEndpoint(p) ==
  /\ procs[p].pc = "select"
  /\ LET pr == procs[p]
         said == [pr EXCEPT !.out = Log(pr, <<"Getting from server">>),
                            !.trace = Append(@, "SelectEndpoint")]
         uri == selectUri(options, pr.pid)
     IN procs' = [procs EXCEPT ![p] =
          IF Len(options.serverUris) = 0
          THEN Fatal(said, <<"No server URIs specified">>)
          ELSE [said EXCEPT !.uri = uri, !.pc = "round",
                            !.out = Log(said, <<"Server URI: ">> \o uri)]]
  /\ UNCHANGED <<options, writes, aloneVars>>

\* What the backend holds for a key: the value a put run generates for it,
\* some other value, or nothing.
Answers == {"stored", "other", "none"}

AnswerValue(answer, generated) ==
  IF answer = "stored" THEN generated ELSE <<"other">>

\* getParametersFromServer that asks for the remaining keys before it throws
RECURSIVE getParametersFromServer_throwsLate(_, _, _, _, _)
getParametersFromServer_throwsLate(keys, generated, answer, map, asked) ==
  IF keys = <<>> THEN [map |-> map, asked |-> asked, missing |-> <<>>]
  ELSE LET key == Head(keys)
       IN IF answer[key] = "none"
          THEN LET rest == getParametersFromServer_throwsLate(Tail(keys),
                             generated, answer, map, Append(asked, key))
               IN [map |-> rest.map, asked |-> rest.asked, missing |-> key]
          ELSE getParametersFromServer_throwsLate(Tail(keys), generated, answer,
                 MapOf({<<k, map[k]>> : k \in DOMAIN map} \cup
                       {<<key, AnswerValue(answer[key], generated[key])>>}),
                 Append(asked, key))

\* getParametersFromServer(): one getString per key of keys, in order, until
\* one is absent.  Returns the map built, the keys asked for, and the key
\* whose absence made the call throw (<<>> when it returned).
RECURSIVE getParametersFromServer(_, _, _, _, _)
getParametersFromServer(keys, generated, answer, map, asked) ==
  IF keys = <<>> THEN [map |-> map, asked |-> asked, missing |-> <<>>]
  ELSE LET key == Head(keys)
       IN IF answer[key] = "none"
          THEN [map |-> map, asked |-> Append(asked, key), missing |-> key]
          ELSE getParametersFromServer(Tail(keys), generated, answer,
                 MapOf({<<k, map[k]>> : k \in DOMAIN map} \cup
                       {<<key, AnswerValue(answer[key], generated[key])>>}),
                 Append(asked, key))

\* getParametersFromServerRecursive(): one getRecursive(root); every entry
\* of the tree comes back under root + its relative key
getParametersFromServerRecursive(root, generated, answer) ==
  LET relative(k) == SubSeq(k, Len(root) + 1, Len(k))
      keyValues == {<<relative(k), AnswerValue(answer[k], generated[k])>> :
                    k \in {g \in DOMAIN generated : answer[g] # "none"}}
  IN MapOf({<<root \o kv[1], kv[2]>> : kv \in keyValues})

RECURSIVE KeyLines(_)
KeyLines(keys) ==
  IF keys = <<>> THEN <<>>
  ELSE << <<" - ">> \o Head(keys) >> \o KeyLines(Tail(keys))

\* ParameterHandler::get (and its overrides) between the two time stamps
ExecuteRound(p) ==
  /\ procs[p].pc = "round"
  /\ LET pr == procs[p]
         structure == options.parameterStructure
         n == options.parameterNumber
         gen == GenTable[structure][n]
         began == [pr EXCEPT !.trace = Append(@, "ExecuteRound"),
                             !.rounds = @ + 1, !.generatedMap = gen]
     IN \E answer \in [DOMAIN gen -> Answers] :
          procs' = [procs EXCEPT ![p] =
            IF structure \in {"separate", "combined"}
            THEN LET r == getParametersFromServer(KeyOrder(DOMAIN gen), gen,
                                                  answer, EmptyMap, <<>>)
                     said == [began EXCEPT
                                !.out = LogAll(began, << <<"Getting keys">> >>
                                                      \o KeyLines(r.asked)),
                                !.fetched = r.asked]
                 IN IF r.missing # <<>>
                    THEN Fatal(said, <<"Failed to get key">> \o r.missing)
                    ELSE [said EXCEPT !.returnedMap = r.map, !.pc = "report"]
            ELSE LET root == IF structure = "flat" THEN flatParameterPath(n)
                             ELSE treeParameterPath(n)
                 IN [began EXCEPT
                       !.out = Log(began, <<"Getting recursive: ">> \o root),
                       !.fetched = <<root>>,
                       !.returnedMap =
                          getParametersFromServerRecursive(root, gen, answer),
                       !.pc = "report"]]
  /\ UNCHANGED <<options, writes, aloneVars>>

TimeSample(which) == [name |-> "time", of |-> which, value |-> 0]

MismatchSample(mismatches) ==
  [name |-> "mismatches", of |-> "check", value |-> mismatches]

\* the pc after the samples were sent: the check unless --skip-check
AfterReport(o) == IF o.skipCheckValues THEN "exited" ELSE "verify"

\* the try block of doGet(): two sendTagged calls, either of which may throw
ReportSamples(p) ==
  /\ procs[p].pc = "report"
  /\ LET pr == [procs[p] EXCEPT !.trace = Append(@, "ReportSamples")]
         wrapped == <<"Failed to send monitoring data - ", "sink error">>
     IN \E accepted \in 0..2 :
          procs' = [procs EXCEPT ![p] =
            IF accepted = 0 THEN Fatal(pr, wrapped)
            ELSE IF accepted = 1
            THEN Fatal([pr EXCEPT !.samples = Append(@, TimeSample("start"))],
                       wrapped)
            ELSE LET sent == [pr EXCEPT !.samples =
                                @ \o <<TimeSample("start"), TimeSample("end")>>]
                 IN IF AfterReport(options) = "exited"
                    THEN ReturnZero([sent EXCEPT !.trace = Append(@, "Done")])
                    ELSE [sent EXCEPT !.pc = AfterReport(options)]]
  /\ UNCHANGED <<options, writes, aloneVars>>

\* checkReturnedParameters(): the number of mismatches and the lines logged
RECURSIVE CheckLoop(_, _, _, _, _)
CheckLoop(keys, generatedMap, returnedMap, mismatches, lines) ==
  IF keys = <<>> THEN [mismatches |-> mismatches, lines |-> lines]
  ELSE LET key == Head(keys)
       IN IF key \notin DOMAIN returnedMap
          THEN CheckLoop(Tail(keys), generatedMap, returnedMap, mismatches + 1,
                         Append(lines, <<"Mismatch for key:">> \o key
                                         \o <<" not found in returned list">>))
          ELSE IF returnedMap[key] # generatedMap[key]
          THEN CheckLoop(Tail(keys), generatedMap, returnedMap, mismatches + 1,
                         Append(lines, <<"Mismatch for key:">> \o key
                                         \o <<" expected/returned">>))
          ELSE CheckLoop(Tail(keys), generatedMap, returnedMap, mismatches,
                         lines)

\* checkReturnedParameters that counts a difference in size as a mismatch
checkReturnedParameters_countsSize(generatedMap, returnedMap) ==
  LET differ == Cardinality(DOMAIN generatedMap) # Cardinality(DOMAIN returnedMap)
  IN CheckLoop(KeyOrder(DOMAIN generatedMap), generatedMap, returnedMap,
               IF differ THEN 1 ELSE 0,
               IF differ THEN << <<"Mismatch of size">> >> ELSE <<>>)

checkReturnedParameters(generatedMap, returnedMap) ==
  CheckLoop(KeyOrder(DOMAIN generatedMap), generatedMap, returnedMap, 0,
            IF Cardinality(DOMAIN generatedMap) # Cardinality(DOMAIN returnedMap)
            THEN << <<"Mismatch of size">> >> ELSE <<>>)

\* SendsMismatches that also reports a count of zero
SendsMismatches_always(mismatches) == mismatches >= 0

\* whether a check that found this many mismatches sends a sample
SendsMismatches(mismatches) == mismatches > 0

\* the check of doGet() and the return to main()
Verify(p) ==
  /\ procs[p].pc = "verify"
  /\ LET pr == [procs[p] EXCEPT !.trace = Append(@, "Verify")]
         check == checkReturnedParameters(pr.generatedMap, pr.returnedMap)
         checked == [pr EXCEPT !.out = LogAll(pr,
                       << <<"Checking parameters">> >> \o check.lines)]
         found == [checked EXCEPT !.out = Append(@, <<"Mismatches found: ">>
                                    \o lexical_cast(check.mismatches))]
         printed(q) ==
           IF q.sVerbose
           THEN LET g == [q EXCEPT !.out = printMapCsv(
                           [q EXCEPT !.out = Log(q, <<"# Generated">>)],
                           q.generatedMap)]
                IN [g EXCEPT !.out = printMapCsv(
                      [g EXCEPT !.out = Log(g, <<"# Returned">>)],
                      g.returnedMap)]
           ELSE q
         done(q) == ReturnZero([printed(q) EXCEPT !.trace = Append(@, "Done")])
     IN IF SendsMismatches(check.mismatches)
        THEN \E accepted \in BOOLEAN :
               procs' = [procs EXCEPT ![p] =
                 IF accepted
                 THEN done([found EXCEPT !.samples =
                              Append(@, MismatchSample(check.mismatches))])
                 ELSE Fatal(found, <<"sink error">>)]
        ELSE procs' = [procs EXCEPT ![p] = done(checked)]
  /\ UNCHANGED <<options, writes, aloneVars>>

\* ----------------------------------------------------------- specification
Next ==
  \/ \E p \in DOMAIN procs : ParseError(p)
  \/ \E p \in DOMAIN procs : GetOptions(p)
  \/ \E p \in DOMAIN procs : Dispatch(p)
  \/ \E p \in DOMAIN procs : PutBegin(p)
  \/ \E p \in DOMAIN procs : PutString(p)
  \/ \E p \in DOMAIN procs : GetBegin(p)
  \/ \E p \in DOMAIN procs : Fork(p)
  \/ \E p \in DOMAIN procs : ConfigureMetrics(p)
  \/ \E p \in DOMAIN procs : WaitForSyncPoint(p)
  \/ \E p \in DOMAIN procs : SelectEndpoint(p)
  \/ \E p \in DOMAIN procs : ExecuteRound(p)
  \/ \E p \in DOMAIN procs : ReportSamples(p)
  \/ \E p \in DOMAIN procs : Verify(p)

Spec == Init /\ [][Next]_vars

\* ------------------------------------- checkReturnedParameters() on its own
CheckKeys == {<<"/test/separate/key">> \o lexical_cast(i) : i \in 0..(RecKeys - 1)}

CheckValues == {makeValue(0), <<"other">>}

\* every map from some of the keys to the values
CheckMaps ==
  UNION {[K -> CheckValues] : K \in SUBSET CheckKeys}

InitCheck ==
  /\ options = NoOptions
  /\ procs = <<>>
  /\ writes = <<>>
  /\ checkGenerated \in CheckMaps
  /\ checkReturned \in CheckMaps
  /\ checkResult = -1
  /\ GenIdle
  /\ SyncIdle

CallCheck ==
  /\ checkResult = -1
  /\ checkResult' = checkReturnedParameters(checkGenerated, checkReturned).mismatches
  /\ UNCHANGED <<options, procs, writes, checkGenerated, checkReturned, genVars, syncVars>>

NextCheck == CallCheck

SpecCheck == InitCheck /\ [][NextCheck]_vars

\* ------------------------------------------- createParameterMap() on its own
InitGen ==
  /\ options = NoOptions
  /\ procs = <<>>
  /\ writes = <<>>
  /\ checkGenerated = EmptyMap
  /\ checkReturned = EmptyMap
  /\ checkResult = -1
  /\ genStructure \in Structures
  /\ genNumber \in 0..MaxGen
  /\ genDone = FALSE
  /\ genMap = EmptyMap
  /\ genDepth = 0
  /\ SyncIdle

CallGenerate ==
  /\ ~genDone
  /\ genDone' = TRUE
  /\ genMap' = createParameterMap(genStructure, genNumber)
  /\ genDepth' = IF genStructure = "tree"
                 THEN findDepth(genNumber, DirCapacity) ELSE 0
  /\ UNCHANGED <<options, procs, writes, checkVars, genStructure, genNumber, syncVars>>

NextGen == CallGenerate

SpecGen == InitGen /\ [][NextGen]_vars

\* ---------------------------------------------- waiting for the sync point
\* std::localtime and mktime, in a zone without clock changes; mktime brings
\* a field that is out of range (tm_min = 60) back into range by carrying.
localtime(t) ==
  [tm_yday |-> t \div (24 * 3600), tm_hour |-> (t \div 3600) % 24,
   tm_min |-> (t \div 60) % 60, tm_sec |-> t % 60]

mktime(tm) ==
  tm.tm_yday * (24 * 3600) + tm.tm_hour * 3600 + tm.tm_min * 60 + tm.tm_sec

\* nextTime of waitUntilNextInterval
nextTime_inclusive(currentTime) ==
  IF currentTime.tm_sec <= 10
  THEN [currentTime EXCEPT !.tm_sec = 10]
  ELSE [currentTime EXCEPT !.tm_min = @ + 1, !.tm_sec = 10]

nextTime_keepsSeconds(currentTime) ==
  IF currentTime.tm_sec < 10
  THEN [currentTime EXCEPT !.tm_sec = 10]
  ELSE [currentTime EXCEPT !.tm_min = @ + 1]

nextTime(currentTime) ==
  IF currentTime.tm_sec < 10
  THEN [currentTime EXCEPT !.tm_sec = 10]
  ELSE [currentTime EXCEPT !.tm_min = @ + 1, !.tm_sec = 10]

\* the instants at which the clock is looked at: a few seconds of each of
\* SyncMinutes minutes running over the end of an hour and of a day
SyncStart == 23 * 3600 + 58 * 60

SyncSeconds == {0, 9, 10, 11, 59}

SyncInstants ==
  {SyncStart + 60 * m + s : m \in 0..(SyncMinutes - 1), s \in SyncSeconds}

InitSync ==
  /\ options = NoOptions
  /\ procs = <<>>
  /\ writes = <<>>
  /\ checkGenerated = EmptyMap
  /\ checkReturned = EmptyMap
  /\ checkResult = -1
  /\ GenIdle
  /\ syncCount \in 1..MaxProc
  /\ clock \in SyncInstants
  /\ sync = [q \in 1..syncCount |-> [pc |-> "ready", now |-> 0, wake |-> 0]]

\* time passes
SyncTick ==
  /\ \E t \in SyncInstants : t > clock /\ clock' = t
  /\ UNCHANGED <<options, procs, writes, checkVars, genVars, syncCount, sync>>

\* waitUntilNextInterval up to the call of sleep_until
ReadClock(q) ==
  /\ sync[q].pc = "ready"
  /\ sync' = [sync EXCEPT ![q] =
       [pc |-> "sleeping", now |-> clock,
        wake |-> mktime(nextTime(localtime(clock)))]]
  /\ UNCHANGED <<options, procs, writes, checkVars, genVars, syncCount, clock>>

\* sleep_until returns, the round starts
WakeUp(q) ==
  /\ sync[q].pc = "sleeping"
  /\ clock >= sync[q].wake
  /\ sync' = [sync EXCEPT ![q].pc = "started"]
  /\ UNCHANGED <<options, procs, writes, checkVars, genVars, syncCount, clock>>

NextSync ==
  \/ SyncTick
  \/ \E q \in 1..syncCount : ReadClock(q)
  \/ \E q \in 1..syncCount : WakeUp(q)

SpecSync == InitSync /\ [][NextSync]_vars

\* ------------------------------------------------------------- properties
TypeOK ==
  \A p \in DOMAIN procs :
    /\ procs[p].exit \in {-1, 0, 1}
    /\ (procs[p].pc = "exited") = (procs[p].exit # -1)

\* the run was dispatched to doGet(), respectively doPut()
GetRun ==
  /\ options # NoOptions
  /\ ~options.help /\ ~options.printParams /\ ~options.put
  /\ options.parameterStructure \in Structures

PutRun ==
  /\ options # NoOptions
  /\ ~options.help /\ ~options.printParams /\ options.put
  /\ options.parameterStructure \in Structures

Exited(p) == procs[p].pc = "exited"

\* the messages of process p on std::cerr that mention the text
Raised(p, text) == {e \in Range(procs[p].err) : text \in Range(e)}

IsPrefix(s, t) == Len(s) <= Len(t) /\ s = SubSeq(t, 1, Len(s))

\* C1: the exit code is 0 for every help request, whatever the other
\* options, and for every run that ends without a fatal error; it is 1 for
\* every run in which a fatal error is raised.
C1_ExitCode ==
  \A p \in DOMAIN procs :
    Exited(p) =>
      /\ <<"optionsDescription">> \in Range(procs[p].out) => procs[p].exit = 0
      /\ procs[p].err = <<>> => procs[p].exit = 0
      /\ procs[p].err # <<>> => procs[p].exit = 1

\* the place of a step in the order the specification lists
StatedRank(step) ==
  CASE step = "SelectEndpoint" -> 1
    [] step = "Fork" -> 2
    [] step = "ConfigureMetrics" -> 3
    [] step = "WaitForSyncPoint" -> 4
    [] step = "ExecuteRound" -> 5
    [] step = "ReportSamples" -> 6
    [] step = "Verify" -> 7
    [] step = "Done" -> 8

\* C2 as stated: in every process of a get run the steps taken come in the
\* order SelectEndpoint, Fork, ConfigureMetrics, WaitForSyncPoint,
\* ExecuteRound, ReportSamples, Verify, Done.
C2_StatedOrder ==
  \A p \in DOMAIN procs :
    \A j, k \in 1..Len(procs[p].trace) :
      j < k => StatedRank(procs[p].trace[j]) < StatedRank(procs[p].trace[k])

\* the steps of a process of the run that is not stopped by a fatal error
StepsOfRun ==
  (IF options.processNumber > 1 THEN <<"Fork">> ELSE <<>>)
  \o <<"ConfigureMetrics">>
  \o (IF options.skipWait THEN <<>> ELSE <<"WaitForSyncPoint">>)
  \o <<"SelectEndpoint", "ExecuteRound", "ReportSamples">>
  \o (IF options.skipCheckValues THEN <<>> ELSE <<"Verify">>)
  \o <<"Done">>

\* C2 as amended: the steps a process of a get run has taken are the first
\* steps of Fork (only when processCount > 1), ConfigureMetrics,
\* WaitForSyncPoint (unless skipped), SelectEndpoint, ExecuteRound,
\* ReportSamples, Verify (unless skipped), Done; a process that has exited
\* without a fatal error has taken them all.
C2_Order ==
  GetRun =>
    \A p \in DOMAIN procs :
      /\ IsPrefix(procs[p].trace, StepsOfRun)
      /\ (Exited(p) /\ procs[p].exit = 0) => procs[p].trace = StepsOfRun

C2_Witness ==
  \E p \in DOMAIN procs :
    /\ procs[p].child /\ Exited(p)
    /\ procs[p].trace = <<"Fork", "ConfigureMetrics", "WaitForSyncPoint",
                          "SelectEndpoint", "ExecuteRound", "ReportSamples",
                          "Verify", "Done">>

InOrBeforeForkLoop(p) == procs[p].pc \in {"main", "dispatch", "doGet", "fork"}

C4_Selection ==
  GetRun =>
    \A p \in DOMAIN procs :
      LET k == Len(options.serverUris)
      IN /\ InOrBeforeForkLoop(p) \/ procs[p].pc \in {"configure", "wait", "select"}
              => procs[p].uri = <<>>
         /\ "SelectEndpoint" \in Range(procs[p].trace) =>
              /\ procs[p].uri = options.serverUris[(procs[p].pid % k) + 1]
              /\ \A q \in DOMAIN procs : q # p => procs[q].pid # procs[p].pid
              /\ p = 1 => procs[p].spawned = options.processNumber - 1
              /\ (k = 3 /\ procs[p].pid = 7) => procs[p].uri = options.serverUris[2]

C4_Witness ==
  /\ options.serverUris = << <<"a">>, <<"b">>, <<"c">> >>
  /\ \E p, q \in DOMAIN procs :
       /\ ~procs[p].child /\ procs[p].pid = 7 /\ procs[p].uri = <<"b">>
       /\ procs[q].child /\ procs[q].pid = 8 /\ procs[q].uri = <<"c">>

\* C5: a forked child never writes to standard output.
C5_SilentChild ==
  \A p \in DOMAIN procs : procs[p].child => procs[p].out = <<>>

\* the number of keys of map that sort before key
Before(key, map) == Cardinality({k \in DOMAIN map : StringLess(k, key)})

C7_AbsentKey ==
  (GetRun /\ options.parameterStructure \in {"separate", "combined"}) =>
    \A p \in DOMAIN procs :
      LET asked == procs[p].fetched
          expected ==
            DOMAIN GenTable[options.parameterStructure][options.parameterNumber]
      IN /\ Range(asked) \subseteq expected
         /\ \A j, k \in 1..Len(asked) : j # k => asked[j] # asked[k]
         /\ \A e \in Raised(p, "Failed to get key") :
              /\ asked # <<>>
              /\ SubSeq(e, 3, Len(e)) = asked[Len(asked)]
              /\ Exited(p) /\ procs[p].exit = 1
              /\ procs[p].samples = <<>>
              /\ "ReportSamples" \notin Range(procs[p].trace)
              /\ "Verify" \notin Range(procs[p].trace)

C7_Witness ==
  /\ GetRun /\ options.parameterStructure = "separate"
  /\ options.parameterNumber = 2
  /\ \E p \in DOMAIN procs :
       /\ Raised(p, "Failed to get key") # {}
       /\ procs[p].fetched = << <<"/test/separate/key", "0">> >>
       /\ procs[p].exit = 1

\* C8: every failure of a sample emission (start time, end time, mismatch
\* count) reaches std::cerr with the 'Failed to send monitoring data' context.
C8_Wrapped ==
  \A p \in DOMAIN procs :
    \A e \in Raised(p, "sink error") :
      "Failed to send monitoring data - " \in Range(e)

\* the mismatches between the maps of process p, counted key by key
Missing(p) == DOMAIN procs[p].generatedMap \ DOMAIN procs[p].returnedMap

Differing(p) ==
  {k \in DOMAIN procs[p].generatedMap \cap DOMAIN procs[p].returnedMap :
     procs[p].generatedMap[k] # procs[p].returnedMap[k]}

\* C9: a process whose round succeeded, whose samples are all accepted and
\* whose check is not skipped reaches Done with exit code 0 whatever the
\* number m of mismatches, and it has emitted the two time samples followed
\* by a mismatch sample of value m if and only if m > 0.
C9_Mismatches ==
  \A p \in DOMAIN procs :
    ("Verify" \in Range(procs[p].trace) /\ Raised(p, "sink error") = {}) =>
      LET m == Cardinality(Missing(p)) + Cardinality(Differing(p))
      IN /\ Exited(p) /\ procs[p].exit = 0 /\ procs[p].err = <<>>
         /\ procs[p].trace[Len(procs[p].trace)] = "Done"
         /\ procs[p].samples =
              <<TimeSample("start"), TimeSample("end")>>
              \o (IF m > 0 THEN <<[name |-> "mismatches", of |-> "check",
                                   value |-> m]>> ELSE <<>>)

C9_Witness ==
  \E p \in DOMAIN procs :
    /\ Exited(p) /\ procs[p].exit = 0
    /\ Cardinality(Missing(p)) = 1 /\ Cardinality(Differing(p)) = 1
    /\ Len(procs[p].samples) = 3 /\ procs[p].samples[3].value = 2

\* C10: checkReturnedParameters returns the number of keys of the generated
\* map that the returned map lacks plus the number of keys of both whose
\* values differ; keys of the returned map alone and a difference in size
\* add nothing.
C10_Reconcile ==
  checkResult # -1 =>
    checkResult =
      Cardinality({k \in DOMAIN checkGenerated : k \notin DOMAIN checkReturned})
      + Cardinality({k \in DOMAIN checkGenerated \cap DOMAIN checkReturned :
                       checkGenerated[k] # checkReturned[k]})

C10_Witness ==
  /\ checkResult = 0
  /\ Cardinality(DOMAIN checkGenerated) = 1
  /\ Cardinality(DOMAIN checkReturned) = 2
  /\ \A k \in DOMAIN checkGenerated :
       k \in DOMAIN checkReturned /\ checkReturned[k] = checkGenerated[k]

\* C11: for every n >= 0 the separate, flat and tree structures generate a
\* map of exactly n entries, and the combined structure a map of exactly one
\* entry (for n = 0 the entry /test/combined/key0 with the empty value).
C11_EntryCount ==
  genDone =>
    /\ genStructure \in {"separate", "flat", "tree"} =>
         Cardinality(DOMAIN genMap) = genNumber
    /\ genStructure = "combined" =>
         /\ Cardinality(DOMAIN genMap) = 1
         /\ genNumber = 0 =>
              genMap = [k \in {<<"/test/combined/key", "0">>} |-> <<>>]

C11_Witness ==
  /\ genDone /\ genStructure = "tree" /\ genNumber = MaxGen
  /\ Cardinality(DOMAIN genMap) = MaxGen

\* 5 * (2^0 + ... + 2^d)
StatedCapacity(d) == 5 * (Pow2(d + 1) - 1)

StatedDepth(n) ==
  CHOOSE d \in 0..n : /\ StatedCapacity(d) >= n
                      /\ \A e \in 0..(d - 1) : StatedCapacity(e) < n

\* the directory visited j-th (from 0) by the pre-order walk of the complete
\* binary tree of depth d, as the path below the root
RECURSIVE PreorderPath(_, _)
PreorderPath(j, d) ==
  IF j = 0 THEN <<>>
  ELSE LET below == Pow2(d) - 1   \* directories under one child
       IN IF j - 1 < below
          THEN <<"/dirA">> \o PreorderPath(j - 1, d - 1)
          ELSE <<"/dirB">> \o PreorderPath(j - 1 - below, d - 1)

StatedTreeKey(i, n) ==
  treeParameterPath(n) \o PreorderPath(i \div 5, StatedDepth(n))
    \o <<"/key">> \o lexical_cast(i)

\* the directory of a key of the tree, and the keys a directory holds
DirOfKey(k) == SubSeq(k, 1, (CHOOSE x \in 1..Len(k) : k[x] = "/key") - 1)

KeysIn(dir) == {k \in DOMAIN genMap : DirOfKey(k) = dir}

DirDepth(dir) == Len(dir) - Len(treeParameterPath(genNumber))

\* C13: the tree structure uses the smallest depth D >= 0 with
\* 5 * (2^0 + ... + 2^D) >= n (0 for n = 0 and n = 5, 1 for n = 6,
\* non-decreasing in n) and lays key0..key(n-1), each with value
\* makeValue(i), out in ascending order along the pre-order walk (directory,
\* dirA, dirB) from /test/tree{n}, five keys to a directory: a directory has
\* children only once it holds 5 keys, no key lies deeper than D, and for
\* n = 6 the root holds key0..key4 and dirA holds key5 alone.
C13_TreeLayout ==
  (genDone /\ genStructure = "tree") =>
    /\ genDepth = StatedDepth(genNumber)
    /\ genNumber \in {0, 5} => genDepth = 0
    /\ genNumber = 6 => genDepth = 1
    /\ \A m \in 0..genNumber : findDepth(m, DirCapacity) <= genDepth
    /\ genMap = MapOf({<<StatedTreeKey(i, genNumber), makeValue(i)>> :
                       i \in 0..(genNumber - 1)})
    /\ \A k \in DOMAIN genMap :
         /\ DirDepth(DirOfKey(k)) \in 0..genDepth
         /\ Cardinality(KeysIn(DirOfKey(k))) <= 5
         /\ DirDepth(DirOfKey(k)) > 0 =>
              Cardinality(KeysIn(SubSeq(DirOfKey(k), 1,
                                        Len(DirOfKey(k)) - 1))) = 5
    /\ genNumber = 6 =>
         DOMAIN genMap =
           {<<"/test/tree", "6", "/key", DigitChar(i)>> : i \in 0..4}
             \cup {<<"/test/tree", "6", "/dirA", "/key", "5">>}

\* a tree of depth 2 whose root has both children and a grandchild
C13_Witness ==
  /\ genDone /\ genStructure = "tree" /\ genNumber = 16 /\ genDepth = 2
  /\ <<"/test/tree", "1", "6", "/dirA", "/dirB", "/key", "1", "5">>
       \in DOMAIN genMap

\* the processes that have computed their wake-up instant
Computed == {q \in 1..syncCount : sync[q].pc # "ready"}

\* second 10 of the minute the instant t lies in
SecondTenOf(t) == t - (t % 60) + 10

\* C12 as stated: the wake-up instant is second 10 of the current minute when
\* the second of the minute is at most 10, of the following minute when it
\* is more than 10, and the round does not start before it.
C12_StatedWake ==
  \A q \in Computed :
    /\ sync[q].now % 60 <= 10 => sync[q].wake = SecondTenOf(sync[q].now)
    /\ sync[q].now % 60 > 10 => sync[q].wake = SecondTenOf(sync[q].now) + 60
    /\ sync[q].pc = "started" => clock >= sync[q].wake

\* C12: the wake-up instant is second 10 of the current minute when the
\* second of the minute is below 10, and second 10 of the following minute
\* when it is 10 or more; the round does not start before that instant.
C12_Wake ==
  \A q \in Computed :
    /\ sync[q].now % 60 < 10 => sync[q].wake = SecondTenOf(sync[q].now)
    /\ sync[q].now % 60 >= 10 => sync[q].wake = SecondTenOf(sync[q].now) + 60
    /\ sync[q].pc = "started" => clock >= sync[q].wake

\* a process that read the clock at second 10 and started a minute later
C12_Witness ==
  \E q \in Computed :
    /\ sync[q].now % 60 = 10
    /\ sync[q].pc = "started"
    /\ sync[q].wake = sync[q].now + 60

\* the window between two consecutive sync points that the instant t lies in
WindowOf(t) == (t - 10) \div 60

\* C14 as stated: with more than one process, all processes compute the same
\* wake-up instant, whatever the time at which each reads the clock.
C14_StatedSameWake ==
  syncCount > 1 =>
    \A q, r \in Computed : sync[q].wake = sync[r].wake

\* C14: with more than one process, two processes compute the same wake-up
\* instant exactly when both read the clock between the same two consecutive
\* sync points (from second 10 of a minute to second 9 of the next); every
\* wake-up instant is second 10 of a minute, so the instants of two
\* processes are otherwise a whole number of minutes apart.
C14_SameWake ==
  syncCount > 1 =>
    \A q, r \in Computed :
      /\ (sync[q].wake = sync[r].wake) <=>
           (WindowOf(sync[q].now) = WindowOf(sync[r].now))
      /\ sync[q].wake % 60 = 10
      /\ (sync[q].wake - sync[r].wake) % 60 = 0

\* two processes that read the clock at different instants of one window and
\* one more process on the other side of the sync point
C14_Witness ==
  /\ syncCount > 1
  /\ \E q, r \in Computed :
       /\ sync[q].now % 60 = 11 /\ sync[r].now % 60 = 59
       /\ sync[q].wake = sync[r].wake
       /\ sync[q].pc = "started" /\ sync[r].pc = "started"

====
